---- MODULE Spec2Model ----
(***************************************************************************)
(* Model of the Elevoniq data pipeline (src/main.py, src/config.py):       *)
(* Salesforce login with retry, one export coroutine per configured object *)
(* gathered on a single asyncio event loop, statistics persistence by      *)
(* read-concatenate-rewrite of a CSV file, and the Google Drive upload.    *)
(*                                                                         *)
(* Strings whose characters the code inspects (object names, field         *)
(* identifiers, file names) are sequences of one-character strings.        *)
(* A list of records is kept run-length encoded: one "block" stands for    *)
(* `count` consecutive records of the provider, so that lists of a million *)
(* rows (the large-dataset threshold) can be represented.                  *)
(*                                                                         *)
(* run() enters the workbook writer with `async with`. The ExcelWriter of  *)
(* the pandas releases is a synchronous context manager only, and then the *)
(* statement raises before any export starts (EnterWriterRaises). Whether  *)
(* the writer object has __aenter__/__aexit__ is an input of the model     *)
(* (writerHasAenter), so that the export, statistics and upload code is    *)
(* checked as well, for a writer that can be entered.                      *)
(*                                                                         *)
(* Specifications: Spec is one run on a fresh disk and an empty drive      *)
(* folder; SpecRuns is up to MaxRuns runs on the same disk and drive;      *)
(* SpecFields applies get_field_labels to every metadata answer of         *)
(* MetadataOptions; SpecDrive is up to MaxRuns runs whose provider calls   *)
(* all answer and whose uploads may fail.                                  *)
(***************************************************************************)
EXTENDS Integers, Sequences, FiniteSets, TLC

\* ---------------------------------------------------------------- bounds
\* Number of configured objects modelled (a prefix of ConfigNames).
NumObjects == 2
\* Largest number of pages the provider splits one object's records into.
MaxPages == 2
\* Number of consecutive pipeline runs (processes) against the same disk.
MaxRuns == 2
\* Largest number of FieldDefinition records, beyond the one of Id, in the
\* metadata answers get_field_labels is applied to.
MaxFields == 3

\* ------------------------------------------------------ program constants
LoginRetries == 5
FetchRetries == 5
LargeThreshold == 1000000

\* ---------------------------------------------------------------- strings
Min(a, b) == IF a < b THEN a ELSE b

\* s.startswith(p) at offset i (1-based)
MatchAt(s, i, p) ==
    /\ i >= 1
    /\ i + Len(p) - 1 <= Len(s)
    /\ SubSeq(s, i, i + Len(p) - 1) = p

\* Python's `p in s` for strings
Contains(s, p) == \E i \in 1..(Len(s) + 1) : MatchAt(s, i, p)

\* Python's s.endswith(p)
EndsWith(s, p) == Len(p) <= Len(s) /\ MatchAt(s, Len(s) - Len(p) + 1, p)

\* Python's s.replace(old, new) for a non-empty `old`: leftmost,
\* non-overlapping occurrences, scanning from position i.
RECURSIVE ReplaceFrom(_, _, _, _)
ReplaceFrom(s, i, old, new) ==
    IF i > Len(s) THEN << >>
    ELSE IF MatchAt(s, i, old)
         THEN new \o ReplaceFrom(s, i + Len(old), old, new)
         ELSE << s[i] >> \o ReplaceFrom(s, i + 1, old, new)

Replace(s, old, new) == ReplaceFrom(s, 1, old, new)

CustomMarker == << "_", "_", "c" >>
CsvSuffix == << ".", "c", "s", "v" >>
XlsxSuffix == << ".", "x", "l", "s", "x" >>

\* ---------------------------------------------------------- configuration
\* Config.OBJECT_NAMES: three of the configured names, in configured order.
ConfigNames ==
    << << "A", "c", "c", "o", "u", "n", "t" >>,
       << "W", "o", "r", "k", "_", "O", "r", "d", "e", "r", "_", "_", "c" >>,
       << "C", "o", "n", "t", "r", "a", "c", "t" >> >>

OBJECT_NAMES == SubSeq(ConfigNames, 1, Min(NumObjects, Len(ConfigNames)))

Objects == 1..Len(OBJECT_NAMES)

\* Config.STANDARD_FIELDS: the allowlist entries the modelled metadata meets.
STANDARD_FIELDS ==
    { << "I", "d" >>, << "N", "a", "m", "e" >>,
      << "O", "w", "n", "e", "r", "I", "d" >> }

\* Config.LOG_FILE_NAME and the workbook's file name
LOG_FILE_NAME ==
    << "P", "i", "p", "e", "l", "i", "n", "e", "_", "L", "o", "g", "s" >>
        \o CsvSuffix

ExcelFileName == << "a", "l", "l", "_", "d", "a", "t", "a" >> \o XlsxSuffix

\* ------------------------------------------------------------ dictionaries
\* A Python dict as the sequence of its <<key, value>> items in insertion
\* order; d[k] = v keeps the place of a key already present.
DictKeys(d) == [i \in 1..Len(d) |-> d[i][1]]

DictHas(d, k) == \E i \in 1..Len(d) : d[i][1] = k

DictGet(d, k, default) ==
    IF DictHas(d, k)
    THEN d[CHOOSE i \in 1..Len(d) : d[i][1] = k][2]
    ELSE default

DictSet(d, k, v) ==
    IF DictHas(d, k)
    THEN [i \in 1..Len(d) |-> IF d[i][1] = k THEN << k, v >> ELSE d[i]]
    ELSE Append(d, << k, v >>)

\* ---------------------------------------------------- the remote provider
\* FieldDefinition records served for an object's metadata query.
FieldMetadata ==
    << [QualifiedApiName |-> << "I", "d" >>, Label |-> "Record ID"],
       [QualifiedApiName |-> << "N", "a", "m", "e" >>, Label |-> "Name"],
       [QualifiedApiName |-> << "F", "o", "o", "_", "_", "c" >>, Label |-> "Foo"],
       [QualifiedApiName |-> << "F", "a", "x" >>, Label |-> "Fax"] >>

\* The FieldDefinition records a metadata answer may be made of: those
\* above, one whose identifier holds the marker in its middle, and one that
\* misses it by an underscore.
FieldPool ==
    FieldMetadata \o
    << [QualifiedApiName |-> << "A", "_", "_", "c", "B" >>, Label |-> "Inner"],
       [QualifiedApiName |-> << "F", "o", "_", "c" >>, Label |-> "Near"] >>

RECURSIVE RecordLists(_)
RecordLists(n) ==
    IF n = 0 THEN { << >> }
    ELSE RecordLists(n - 1) \cup
         { Append(l, FieldPool[i]) : l \in RecordLists(n - 1), i \in 1..Len(FieldPool) }

\* The metadata answers: every sObject has the field Id; up to MaxFields
\* further records follow it, in any order, repeated ones included.
MetadataOptions == { << FieldPool[1] >> \o l : l \in RecordLists(MaxFields) }

FieldNo(f) ==
    CHOOSE i \in 1..Len(FieldPool) : FieldPool[i].QualifiedApiName = f

\* The value the provider holds for field f of the record(s) starting at id.
FieldValue(id, f) == 10 * id + FieldNo(f)

\* record.get(field_api, '') yields '' for a missing key.
EmptyCell == 0

\* A page of two single records.
SmallPage(k) ==
    << [first |-> 10 * k + 1, count |-> 1], [first |-> 10 * k + 2, count |-> 1] >>

SmallData(np) == [k \in 1..np |-> SmallPage(k)]

\* np pages holding `total` records: two per page but the last.
BigData(np, total) ==
    [k \in 1..np |->
        IF k < np THEN SmallPage(k)
        ELSE << [first |-> 10 * k + 1, count |-> total - 2 * (np - 1)] >>]

\* What the provider may hold for one object: nothing (one empty page, done),
\* a few records on one page or on several, or a number of records at the
\* threshold or just below it.
Datasets ==
    { << << >> >>, SmallData(1), SmallData(MaxPages),
      BigData(MaxPages, LargeThreshold - 1), BigData(MaxPages, LargeThreshold) }

\* One served record block: the queried fields of `count` consecutive records.
ServedBlock(b, fields) ==
    [count |-> b.count,
     rec |-> [f \in { fields[i] : i \in 1..Len(fields) } |-> FieldValue(b.first, f)]]

ServedPage(page, fields) ==
    [j \in 1..Len(page) |-> ServedBlock(page[j], fields)]

\* The response to query (k = 1) or query_more (k = the url) on dataset data.
Response(data, k, fields) ==
    [records |-> ServedPage(data[k], fields),
     done |-> (k = Len(data)),
     nextRecordsUrl |-> IF k < Len(data) THEN k + 1 ELSE 0]

\* len(records) of a run-length encoded list
RECURSIVE RecordCount(_)
RecordCount(blocks) ==
    IF blocks = << >> THEN 0
    ELSE Head(blocks).count + RecordCount(Tail(blocks))

RECURSIVE Flatten(_)
Flatten(pages) ==
    IF pages = << >> THEN << >> ELSE Head(pages) \o Flatten(Tail(pages))

\* ------------------------------------------------- SalesforceClient (pure)
RetainedSuffixOnly(qualified_name) ==
    qualified_name \in STANDARD_FIELDS \/ EndsWith(qualified_name, CustomMarker)

\* if qualified_name in Config.STANDARD_FIELDS or '__c' in qualified_name
Retained(qualified_name) ==
    qualified_name \in STANDARD_FIELDS \/ Contains(qualified_name, CustomMarker)

\* get_field_labels: the loop over the metadata records, from record i on.
RECURSIVE FieldLabelLoop(_, _, _)
FieldLabelLoop(field_metadata, i, field_label_map) ==
    IF i > Len(field_metadata) THEN field_label_map
    ELSE FieldLabelLoop(field_metadata, i + 1,
            IF Retained(field_metadata[i].QualifiedApiName)
            THEN DictSet(field_label_map, field_metadata[i].QualifiedApiName,
                         field_metadata[i].Label)
            ELSE field_label_map)

get_field_labels(field_metadata) == FieldLabelLoop(field_metadata, 1, << >>)

\* ----------------------------------------------------- DataPipeline (pure)
\* fieldname_mapping = {v: k for k, v in field_label_map.items()}
RECURSIVE InvertFrom(_, _, _)
InvertFrom(field_label_map, i, acc) ==
    IF i > Len(field_label_map) THEN acc
    ELSE InvertFrom(field_label_map, i + 1,
                    DictSet(acc, field_label_map[i][2], field_label_map[i][1]))

FieldnameMapping(field_label_map) == InvertFrom(field_label_map, 1, << >>)

\* One DataFrame row: field label -> record.get(field_api, '')
RowOf(rec, fieldname_mapping) ==
    [label \in { fieldname_mapping[i][1] : i \in 1..Len(fieldname_mapping) } |->
        LET field_api == DictGet(fieldname_mapping, label, << >>)
        IN  IF field_api \in DOMAIN rec THEN rec[field_api] ELSE EmptyCell]

DataFrameRows(records, field_label_map) ==
    [j \in 1..Len(records) |->
        [count |-> records[j].count,
         row |-> RowOf(records[j].rec, FieldnameMapping(field_label_map))]]

\* sheet_name = object_name.replace("__c", "").replace("_", " ")
SheetName(object_name) ==
    Replace(Replace(object_name, CustomMarker, << >>), << "_" >>, << " " >>)

CsvFileName(object_name) == object_name \o CsvSuffix

GoesToCsvStrict(records) == RecordCount(records) > LargeThreshold

\* if len(records) >= 1_000_000
GoesToCsv(records) == RecordCount(records) >= LargeThreshold

\* Column headers of the statistics file (save_statistics)
StatColumns ==
    << "Object Name", "Start Time", "End Time", "Duration (Seconds)",
       "Last Refresh Date" >>

\* One stats_data entry, in column order. Cells keep their Python type.
StatsData(stat) ==
    << [type |-> "str", v |-> stat.object_name],
       [type |-> "datetime", v |-> stat.start_time],
       [type |-> "datetime", v |-> stat.end_time],
       [type |-> "float", v |-> stat.duration],
       [type |-> "str", v |-> stat.last_refresh_date] >>

\* DataFrame.to_csv: every cell becomes text.
ToCsvRow(cells) == [c \in 1..Len(cells) |-> [text |-> cells[c].v]]

\* pd.read_csv: numbers are parsed back, everything else (the time stamps
\* included) stays a string.
ReadCsvRow(texts) ==
    [c \in 1..Len(texts) |->
        [type |-> IF StatColumns[c] = "Duration (Seconds)" THEN "float" ELSE "str",
         v |-> texts[c].text]]

\* -------------------------------------------------------------------- state
VARIABLES
    pc,               \* where DataPipeline.run is
    runNo,            \* which run (process) this is
    clock,            \* datetime.now(), a logical clock
    writerHasAenter,  \* whether the ExcelWriter object has __aenter__/__aexit__
    dataset,          \* what the provider holds for each object
    login_i,          \* login: loop index i
    loginCalls,       \* SalesforceLogin calls made by the login() in progress
    loginFails,       \* those of them that raised
    sf,               \* SalesforceClient.sf is set
    tpc,              \* where each export coroutine is
    current,          \* the coroutine the event loop is running (0: none)
    started,          \* how often each object's coroutine body was entered
    start_time,       \* export_salesforce_object: start_time
    field_metadata,   \* get_field_labels: the records of field_metadata
    labelCalls,       \* query_all calls made by the coroutine's get_field_labels
    labelFails,       \* those of them that raised
    field_label_map,  \* export_salesforce_object: field_label_map
    fetch_i,          \* fetch_data: loop index i
    all_records,      \* fetch_data: all_records
    next_records_url, \* fetch_data: next_records_url (0: None)
    issued,           \* remote calls made for each page by the current fetch_data
    failedAt,         \* those of them that raised
    statistics,       \* SalesforceClient.statistics
    workbook,         \* sheets written to the ExcelWriter
    csvWritten,       \* files df.to_csv wrote in this run
    localFolder,      \* Config.LOCAL_FOLDER on disk: file name -> content
    statsFile,        \* the statistics file on disk
    reached,          \* phases of run() entered in this run
    service,          \* GoogleDriveClient.service is set
    folder_id,        \* GoogleDriveClient.folder_id (0: None)
    toUpload,         \* files of the upload loop not yet visited
    logs,             \* DataPipeline.logs
    driveFiles        \* the files in the drive folder: name, media uploads

runVars == << pc, runNo, clock, writerHasAenter, dataset, reached >>
loginVars == << login_i, loginCalls, loginFails, sf >>
taskVars == << tpc, current, started, start_time >>
labelVars == << field_metadata, labelCalls, labelFails >>
fetchVars == << labelVars, field_label_map, fetch_i, all_records,
                next_records_url, issued, failedAt >>
outVars == << statistics, workbook, csvWritten, localFolder, statsFile >>
driveVars == << service, folder_id, toUpload, logs, driveFiles >>
vars == << runVars, loginVars, taskVars, fetchVars, outVars, driveVars >>

Pages == 1..MaxPages
NoCalls == [k \in Pages |-> 0]

\* The coroutines' state right after DataPipeline() is constructed.
NoTasks == [o \in Objects |-> "none"]
Zeros == [o \in Objects |-> 0]
Empties == [o \in Objects |-> << >>]
NoFrames == [o \in Objects |-> NoCalls]

Init ==
    /\ pc = "start"
    /\ runNo = 1
    /\ clock = 1
    /\ writerHasAenter \in BOOLEAN
    /\ dataset \in [Objects -> Datasets]
    /\ reached = { }
    /\ login_i = 0 /\ loginCalls = 0 /\ loginFails = 0 /\ sf = FALSE
    /\ tpc = NoTasks /\ current = 0 /\ started = Zeros /\ start_time = Zeros
    /\ field_metadata = Empties /\ labelCalls = Zeros /\ labelFails = Zeros
    /\ field_label_map = Empties /\ fetch_i = Zeros
    /\ all_records = Empties /\ next_records_url = Zeros
    /\ issued = NoFrames /\ failedAt = NoFrames
    /\ statistics = << >>
    /\ workbook = << >>
    /\ csvWritten = { }
    /\ localFolder = << >>
    /\ statsFile = [exists |-> FALSE, columns |-> << >>, rows |-> << >>]
    /\ service = FALSE /\ folder_id = 0 /\ toUpload = << >> /\ logs = << >>
    /\ driveFiles = << >>

\* -------------------------------------------------------- run(): the start
\* Config.ensure_folders()
EnsureFolders ==
    /\ pc = "start"
    /\ pc' = "login"
    /\ reached' = reached \cup { "login" }
    /\ UNCHANGED << runNo, clock, writerHasAenter, dataset >>
    /\ UNCHANGED << loginVars, taskVars, fetchVars, outVars, driveVars >>

\* ------------------------------------------------- SalesforceClient.login
LoginMayTryOffByOne(i) == i <= LoginRetries

\* for i in range(retries): is there an attempt i?
LoginMayTry(i) == i < LoginRetries

\* SalesforceLogin returns: the session is kept and login returns.
LoginOk ==
    /\ pc = "login"
    /\ LoginMayTry(login_i)
    /\ loginCalls' = loginCalls + 1
    /\ sf' = TRUE
    /\ pc' = "open_writer"
    /\ UNCHANGED << login_i, loginFails >>
    /\ UNCHANGED << runNo, clock, writerHasAenter, dataset, reached >>
    /\ UNCHANGED << taskVars, fetchVars, outVars, driveVars >>

\* SalesforceLogin raises: the handler computes the wait and calls time.sleep.
LoginFail ==
    /\ pc = "login"
    /\ LoginMayTry(login_i)
    /\ loginCalls' = loginCalls + 1
    /\ loginFails' = loginFails + 1
    /\ pc' = "login_sleep"
    /\ UNCHANGED << login_i, sf >>
    /\ UNCHANGED << runNo, clock, writerHasAenter, dataset, reached >>
    /\ UNCHANGED << taskVars, fetchVars, outVars, driveVars >>

AfterLoginSleepNoRaise(i) == IF LoginMayTry(i) THEN "login" ELSE "open_writer"

\* Where run() is once the handler's sleep is over and i is the next loop
\* index: at the next attempt, or, the loop being over, at its own except
\* clause, which catches login's raise of "Max retries reached".
AfterLoginSleep(i) == IF LoginMayTry(i) THEN "login" ELSE "failed"

\* time.sleep returns.
LoginSleep ==
    /\ pc = "login_sleep"
    /\ login_i' = login_i + 1
    /\ pc' = AfterLoginSleep(login_i + 1)
    /\ UNCHANGED << loginCalls, loginFails, sf >>
    /\ UNCHANGED << runNo, clock, writerHasAenter, dataset, reached >>
    /\ UNCHANGED << taskVars, fetchVars, outVars, driveVars >>

\* ------------------------------------- run(): async with pd.ExcelWriter(..)
\* The writer is entered and gather() creates one coroutine per object name.
EnterWriter ==
    /\ pc = "open_writer"
    /\ writerHasAenter
    /\ pc' = "gather"
    /\ reached' = reached \cup { "export" }
    /\ tpc' = [o \in Objects |-> "created"]
    /\ workbook' = << >>
    /\ UNCHANGED << runNo, clock, writerHasAenter, dataset >>
    /\ login_i' = 0 /\ loginCalls' = 0 /\ loginFails' = 0
    /\ UNCHANGED << sf, current, started, start_time >>
    /\ UNCHANGED << statistics, csvWritten, localFolder, statsFile >>
    /\ UNCHANGED << fetchVars, driveVars >>

\* The writer object has no __aenter__/__aexit__: `async with` raises
\* TypeError before its body runs, and run() catches it.
EnterWriterRaises ==
    /\ pc = "open_writer"
    /\ ~writerHasAenter
    /\ pc' = "failed"
    /\ login_i' = 0 /\ loginCalls' = 0 /\ loginFails' = 0
    /\ UNCHANGED << runNo, clock, writerHasAenter, dataset, reached >>
    /\ UNCHANGED << sf, taskVars, fetchVars, outVars, driveVars >>

\* ------------------------------ DataPipeline.export_salesforce_object(o)
\* The coroutine has returned (normally, or through its except clause).
Dead(o) == tpc[o] \in { "returned", "caught" }

\* The locals x of the coroutines, those of the returned ones dropped.
Frames(x, none) == [p \in Objects |-> IF Dead(p) THEN none ELSE x[p]]

LoopFreeYielding == TRUE

\* The coroutine body holds no await: once the event loop has resumed a
\* coroutine, it resumes no other one before that one returns.
LoopFree == current = 0

\* The fields list(field_label_map.keys()) passed to fetch_data
Fields(o) == DictKeys(field_label_map[o])

\* The Statistics record appended at the end of a successful export
StatOf(o) ==
    [object_name |-> OBJECT_NAMES[o],
     start_time |-> start_time[o],
     end_time |-> clock,
     duration |-> clock - start_time[o],
     last_refresh_date |-> runNo]

\* The event loop starts the tasks gather() made, in their order.
Start(o) ==
    /\ pc = "gather"
    /\ LoopFree
    /\ tpc[o] = "created"
    /\ \A p \in Objects : p < o => tpc[p] # "created"
    /\ tpc' = [tpc EXCEPT ![o] = "get_field_labels"]
    /\ current' = o
    /\ started' = [started EXCEPT ![o] = @ + 1]
    /\ start_time' = [Frames(start_time, 0) EXCEPT ![o] = clock]
    /\ clock' = clock + 1
    /\ field_metadata' = Frames(field_metadata, << >>)
    /\ labelCalls' = Frames(labelCalls, 0)
    /\ labelFails' = Frames(labelFails, 0)
    /\ field_label_map' = Frames(field_label_map, << >>)
    /\ fetch_i' = Frames(fetch_i, 0)
    /\ all_records' = Frames(all_records, << >>)
    /\ next_records_url' = Frames(next_records_url, 0)
    /\ issued' = Frames(issued, NoCalls)
    /\ failedAt' = Frames(failedAt, NoCalls)
    /\ UNCHANGED << pc, runNo, writerHasAenter, dataset, reached >>
    /\ UNCHANGED << loginVars, outVars, driveVars >>

\* get_field_labels: the metadata query answers with the records md; the
\* map is built from them and fetch_data is entered.
FieldLabelsOk(o, md) ==
    /\ current = o
    /\ tpc[o] = "get_field_labels"
    /\ labelCalls' = [labelCalls EXCEPT ![o] = @ + 1]
    /\ field_metadata' = [field_metadata EXCEPT ![o] = md]
    /\ field_label_map' = [field_label_map EXCEPT ![o] = get_field_labels(md)]
    /\ UNCHANGED labelFails
    /\ fetch_i' = [fetch_i EXCEPT ![o] = 0]
    /\ tpc' = [tpc EXCEPT ![o] = "query"]
    /\ UNCHANGED << current, started, start_time >>
    /\ UNCHANGED << all_records, next_records_url, issued, failedAt >>
    /\ UNCHANGED << runVars, loginVars, outVars, driveVars >>

\* get_field_labels: query_all raises; nothing retries it, and the
\* coroutine's except clause reports the failure.
FieldLabelsFail(o) ==
    /\ current = o
    /\ tpc[o] = "get_field_labels"
    /\ labelCalls' = [labelCalls EXCEPT ![o] = @ + 1]
    /\ labelFails' = [labelFails EXCEPT ![o] = @ + 1]
    /\ tpc' = [tpc EXCEPT ![o] = "caught"]
    /\ current' = 0
    /\ UNCHANGED << started, start_time, field_metadata >>
    /\ UNCHANGED << field_label_map, fetch_i, all_records, next_records_url,
                    issued, failedAt >>
    /\ UNCHANGED << runVars, loginVars, outVars, driveVars >>

\* for i in range(retries): is there an attempt i?
FetchMayTry(i) == i < FetchRetries

FirstRecordsKept(o, resp) == all_records[o] \o resp.records

\* all_records after the first page of an attempt arrived
FirstRecords(o, resp) == resp.records

\* all_records after a further page arrived
ExtendedRecords(o, resp) == all_records[o] \o resp.records

\* fetch_data: sf.query answers with the first page.
QueryOk(o) ==
    /\ current = o
    /\ tpc[o] = "query"
    /\ FetchMayTry(fetch_i[o])
    /\ LET resp == Response(dataset[o], 1, Fields(o))
       IN  /\ all_records' = [all_records EXCEPT ![o] = FirstRecords(o, resp)]
           /\ next_records_url' = [next_records_url EXCEPT ![o] = resp.nextRecordsUrl]
           /\ tpc' = [tpc EXCEPT ![o] = IF resp.done THEN "save" ELSE "query_more"]
    /\ issued' = [issued EXCEPT ![o][1] = @ + 1]
    /\ UNCHANGED << current, started, start_time >>
    /\ UNCHANGED << field_label_map, fetch_i, failedAt >>
    /\ UNCHANGED labelVars
    /\ UNCHANGED << runVars, loginVars, outVars, driveVars >>

\* fetch_data: sf.query raises; the handler calls time.sleep.
QueryFail(o) ==
    /\ current = o
    /\ tpc[o] = "query"
    /\ FetchMayTry(fetch_i[o])
    /\ issued' = [issued EXCEPT ![o][1] = @ + 1]
    /\ failedAt' = [failedAt EXCEPT ![o][1] = @ + 1]
    /\ tpc' = [tpc EXCEPT ![o] = "sleep"]
    /\ UNCHANGED << current, started, start_time >>
    /\ UNCHANGED << field_label_map, fetch_i, all_records, next_records_url >>
    /\ UNCHANGED labelVars
    /\ UNCHANGED << runVars, loginVars, outVars, driveVars >>

\* fetch_data: sf.query_more answers with the page at next_records_url.
QueryMoreOk(o) ==
    /\ current = o
    /\ tpc[o] = "query_more"
    /\ LET url == next_records_url[o]
           resp == Response(dataset[o], url, Fields(o))
       IN  /\ all_records' = [all_records EXCEPT ![o] = ExtendedRecords(o, resp)]
           /\ next_records_url' = [next_records_url EXCEPT ![o] = resp.nextRecordsUrl]
           /\ tpc' = [tpc EXCEPT ![o] = IF resp.done THEN "save" ELSE "query_more"]
           /\ issued' = [issued EXCEPT ![o][url] = @ + 1]
    /\ UNCHANGED << current, started, start_time >>
    /\ UNCHANGED << field_label_map, fetch_i, failedAt >>
    /\ UNCHANGED labelVars
    /\ UNCHANGED << runVars, loginVars, outVars, driveVars >>

\* fetch_data: sf.query_more raises; the same handler calls time.sleep.
QueryMoreFail(o) ==
    /\ current = o
    /\ tpc[o] = "query_more"
    /\ LET url == next_records_url[o]
       IN  /\ issued' = [issued EXCEPT ![o][url] = @ + 1]
           /\ failedAt' = [failedAt EXCEPT ![o][url] = @ + 1]
    /\ tpc' = [tpc EXCEPT ![o] = "sleep"]
    /\ UNCHANGED << current, started, start_time >>
    /\ UNCHANGED << field_label_map, fetch_i, all_records, next_records_url >>
    /\ UNCHANGED labelVars
    /\ UNCHANGED << runVars, loginVars, outVars, driveVars >>

\* fetch_data: time.sleep returns. The next attempt starts over at sf.query;
\* after the last one fetch_data raises and the coroutine's except clause
\* reports the failure.
FetchSleep(o) ==
    /\ current = o
    /\ tpc[o] = "sleep"
    /\ fetch_i' = [fetch_i EXCEPT ![o] = @ + 1]
    /\ IF FetchMayTry(fetch_i[o] + 1)
       THEN /\ tpc' = [tpc EXCEPT ![o] = "query"]
            /\ current' = current
       ELSE /\ tpc' = [tpc EXCEPT ![o] = "caught"]
            /\ current' = 0
    /\ UNCHANGED << started, start_time >>
    /\ UNCHANGED << field_label_map, all_records, next_records_url, issued, failedAt >>
    /\ UNCHANGED labelVars
    /\ UNCHANGED << runVars, loginVars, outVars, driveVars >>

\* `if records:` is false for an empty list: nothing is written, and the
\* Statistics record is appended all the same.
SaveNothing(o) ==
    /\ current = o
    /\ tpc[o] = "save"
    /\ all_records[o] = << >>
    /\ statistics' = Append(statistics, StatOf(o))
    /\ clock' = clock + 1
    /\ tpc' = [tpc EXCEPT ![o] = "returned"]
    /\ current' = 0
    /\ UNCHANGED << started, start_time >>
    /\ UNCHANGED << workbook, csvWritten, localFolder, statsFile >>
    /\ UNCHANGED << pc, runNo, writerHasAenter, dataset, reached >>
    /\ UNCHANGED << loginVars, fetchVars, driveVars >>

\* `if records:` is true: the DataFrame is built and df.to_csv or
\* df.to_excel is entered, by the row count.
BeginWrite(o) ==
    /\ current = o
    /\ tpc[o] = "save"
    /\ all_records[o] # << >>
    /\ tpc' = [tpc EXCEPT ![o] = IF GoesToCsv(all_records[o]) THEN "to_csv" ELSE "to_excel"]
    /\ UNCHANGED << current, started, start_time >>
    /\ UNCHANGED << runVars, loginVars, fetchVars, outVars, driveVars >>

\* df.to_excel(writer, sheet_name=...) returns; the Statistics record follows.
ToExcelOk(o) ==
    /\ current = o
    /\ tpc[o] = "to_excel"
    /\ workbook' = Append(workbook,
            [sheet_name |-> SheetName(OBJECT_NAMES[o]),
             rows |-> DataFrameRows(all_records[o], field_label_map[o])])
    /\ statistics' = Append(statistics, StatOf(o))
    /\ clock' = clock + 1
    /\ tpc' = [tpc EXCEPT ![o] = "returned"]
    /\ current' = 0
    /\ UNCHANGED << started, start_time >>
    /\ UNCHANGED << csvWritten, localFolder, statsFile >>
    /\ UNCHANGED << pc, runNo, writerHasAenter, dataset, reached >>
    /\ UNCHANGED << loginVars, fetchVars, driveVars >>

\* df.to_csv(file_path) returns; the Statistics record follows.
ToCsvOk(o) ==
    /\ current = o
    /\ tpc[o] = "to_csv"
    /\ LET file_name == CsvFileName(OBJECT_NAMES[o])
       IN  /\ localFolder' =
                (file_name :> DataFrameRows(all_records[o], field_label_map[o]))
                    @@ localFolder
           /\ csvWritten' = csvWritten \cup { file_name }
    /\ statistics' = Append(statistics, StatOf(o))
    /\ clock' = clock + 1
    /\ tpc' = [tpc EXCEPT ![o] = "returned"]
    /\ current' = 0
    /\ UNCHANGED << started, start_time >>
    /\ UNCHANGED << workbook, statsFile >>
    /\ UNCHANGED << pc, runNo, writerHasAenter, dataset, reached >>
    /\ UNCHANGED << loginVars, fetchVars, driveVars >>

\* df.to_excel or df.to_csv raises: the except clause reports the failure.
WriteFail(o) ==
    /\ current = o
    /\ tpc[o] \in { "to_excel", "to_csv" }
    /\ tpc' = [tpc EXCEPT ![o] = "caught"]
    /\ current' = 0
    /\ UNCHANGED << started, start_time >>
    /\ UNCHANGED << runVars, loginVars, fetchVars, outVars, driveVars >>

\* ------------------------------------------ run(): leaving the async with
AllDead == \A o \in Objects : Dead(o)

\* gather() is over and the writer is closed: the workbook is saved.
ExitWriter ==
    /\ pc = "gather"
    /\ AllDead
    /\ current = 0
    /\ localFolder' = (ExcelFileName :> workbook) @@ localFolder
    /\ pc' = "save_statistics"
    /\ start_time' = Frames(start_time, 0)
    /\ field_metadata' = Frames(field_metadata, << >>)
    /\ labelCalls' = Frames(labelCalls, 0)
    /\ labelFails' = Frames(labelFails, 0)
    /\ field_label_map' = Frames(field_label_map, << >>)
    /\ fetch_i' = Frames(fetch_i, 0)
    /\ all_records' = Frames(all_records, << >>)
    /\ next_records_url' = Frames(next_records_url, 0)
    /\ issued' = Frames(issued, NoCalls)
    /\ failedAt' = Frames(failedAt, NoCalls)
    /\ UNCHANGED << tpc, current, started >>
    /\ UNCHANGED << statistics, workbook, csvWritten, statsFile >>
    /\ UNCHANGED << runNo, clock, writerHasAenter, dataset, reached >>
    /\ UNCHANGED << loginVars, driveVars >>

\* Closing a workbook that got no sheet raises with the openpyxl engine
\* ("At least one sheet must be visible"); run() catches it.
ExitWriterRaises ==
    /\ pc = "gather"
    /\ AllDead
    /\ current = 0
    /\ workbook = << >>
    /\ pc' = "failed"
    /\ UNCHANGED << runNo, clock, writerHasAenter, dataset, reached >>
    /\ UNCHANGED << loginVars, taskVars, fetchVars, outVars, driveVars >>

\* ------------------------------------------- DataPipeline.save_statistics
\* stats_data as the rows to_csv writes for it
NewStatRows == [j \in 1..Len(statistics) |-> ToCsvRow(StatsData(statistics[j]))]

\* pd.read_csv(log_file) and the rows to_csv writes for it again
ExistingStatRows ==
    [j \in 1..Len(statsFile.rows) |-> ToCsvRow(ReadCsvRow(statsFile.rows[j]))]

\* pd.read_csv raises EmptyDataError on a file that holds no header line,
\* which is what to_csv wrote for a DataFrame of no statistics.
ReadCsvRaises == statsFile.exists /\ statsFile.columns = << >>

\* The file df.to_csv(log_file) leaves
SavedStatsFile ==
    IF statsFile.exists
    THEN [exists |-> TRUE,
          columns |-> statsFile.columns,
          rows |-> ExistingStatRows \o NewStatRows]
    ELSE [exists |-> TRUE,
          columns |-> IF statistics = << >> THEN << >> ELSE StatColumns,
          rows |-> NewStatRows]

SaveStatistics ==
    /\ pc = "save_statistics"
    /\ ~ReadCsvRaises
    /\ statsFile' = SavedStatsFile
    /\ reached' = reached \cup { "save_statistics", "saved" }
    /\ pc' = "authenticate"
    /\ UNCHANGED << statistics, workbook, csvWritten, localFolder >>
    /\ UNCHANGED << runNo, clock, writerHasAenter, dataset >>
    /\ UNCHANGED << loginVars, taskVars, fetchVars, driveVars >>

SaveStatisticsRaises ==
    /\ pc = "save_statistics"
    /\ ReadCsvRaises
    /\ reached' = reached \cup { "save_statistics" }
    /\ pc' = "failed"
    /\ UNCHANGED << runNo, clock, writerHasAenter, dataset >>
    /\ UNCHANGED << loginVars, taskVars, fetchVars, outVars, driveVars >>

\* ------------------------------------------------------ GoogleDriveClient
AuthenticateOk ==
    /\ pc = "authenticate"
    /\ service' = TRUE
    /\ reached' = reached \cup { "upload" }
    /\ pc' = "get_or_create_folder"
    /\ UNCHANGED << folder_id, toUpload, logs, driveFiles >>
    /\ UNCHANGED << runNo, clock, writerHasAenter, dataset >>
    /\ UNCHANGED << loginVars, taskVars, fetchVars, outVars >>

\* authenticate raises; run() catches it.
AuthenticateFail ==
    /\ pc = "authenticate"
    /\ reached' = reached \cup { "upload" }
    /\ pc' = "failed"
    /\ UNCHANGED << runNo, clock, writerHasAenter, dataset >>
    /\ UNCHANGED << loginVars, taskVars, fetchVars, outVars, driveVars >>

\* The names the local folder may hold, in the order os.listdir gives them
\* (the order is the file system's; one order is taken here).
FolderOrder ==
    << ExcelFileName >> \o [o \in Objects |-> CsvFileName(OBJECT_NAMES[o])]
        \o << LOG_FILE_NAME >>

OnDisk(f) == f \in DOMAIN localFolder \/ (statsFile.exists /\ f = LOG_FILE_NAME)

\* The loop's test filename.endswith(('.xlsx', '.csv'))
IsUploadable(f) == EndsWith(f, XlsxSuffix) \/ EndsWith(f, CsvSuffix)

RECURSIVE ListFrom(_)
ListFrom(i) ==
    IF i > Len(FolderOrder) THEN << >>
    ELSE (IF OnDisk(FolderOrder[i]) /\ IsUploadable(FolderOrder[i])
          THEN << FolderOrder[i] >> ELSE << >>) \o ListFrom(i + 1)

\* os.listdir(Config.LOCAL_FOLDER), filtered by the loop's test
ListedFiles == ListFrom(1)

\* get_or_create_folder returns and the upload loop lists the local folder.
FolderOk ==
    /\ pc = "get_or_create_folder"
    /\ folder_id' = 1
    /\ toUpload' = ListedFiles
    /\ pc' = "upload"
    /\ UNCHANGED << service, logs, driveFiles >>
    /\ UNCHANGED << runNo, clock, writerHasAenter, dataset, reached >>
    /\ UNCHANGED << loginVars, taskVars, fetchVars, outVars >>

\* get_or_create_folder raises; run() catches it.
FolderFail ==
    /\ pc = "get_or_create_folder"
    /\ pc' = "failed"
    /\ UNCHANGED << runNo, clock, writerHasAenter, dataset, reached >>
    /\ UNCHANGED << loginVars, taskVars, fetchVars, outVars, driveVars >>

InDrive(file_name) == \E i \in 1..Len(driveFiles) : driveFiles[i].name = file_name

FileIdNone(file_name) == 0

\* file_id = results['files'][0]['id'] if results['files'] else None: the
\* place of the first file of that name in the folder (0: None).
FileId(file_name) ==
    IF InDrive(file_name)
    THEN CHOOSE i \in 1..Len(driveFiles) :
            /\ driveFiles[i].name = file_name
            /\ \A j \in 1..(i - 1) : driveFiles[j].name # file_name
    ELSE 0

\* files().update(fileId=file_id, media_body=media)
DriveUpdate(file_id) ==
    [driveFiles EXCEPT ![file_id] = [@ EXCEPT !.uploads = @ + 1]]

\* files().create(body={'name': file_name, 'parents': [folder_id]}, ...)
DriveCreate(file_name) == Append(driveFiles, [name |-> file_name, uploads |-> 1])

RemainingAfterFailureNone(files) == << >>

\* upload_file returns its log also when a drive call raised: the loop of
\* run() goes on with the files that follow.
RemainingAfterFailure(files) == Tail(files)

UploadLog(file_name, ok) ==
    [file_name |-> file_name, start_time |-> clock, end_time |-> clock + 1,
     is_success |-> ok]

\* upload_file: the file of that name is updated, or created when the
\* folder holds none; the log entry is appended.
UploadOk ==
    /\ pc = "upload"
    /\ toUpload # << >>
    /\ LET f == Head(toUpload)
           file_id == FileId(f)
       IN  /\ driveFiles' = IF file_id # 0 THEN DriveUpdate(file_id) ELSE DriveCreate(f)
           /\ logs' = Append(logs, UploadLog(f, TRUE))
    /\ clock' = clock + 2
    /\ toUpload' = Tail(toUpload)
    /\ UNCHANGED << service, folder_id >>
    /\ UNCHANGED << pc, runNo, writerHasAenter, dataset, reached >>
    /\ UNCHANGED << loginVars, taskVars, fetchVars, outVars >>

\* upload_file: a drive call raises; the except clause logs the failure.
UploadFail ==
    /\ pc = "upload"
    /\ toUpload # << >>
    /\ logs' = Append(logs, UploadLog(Head(toUpload), FALSE))
    /\ clock' = clock + 2
    /\ toUpload' = RemainingAfterFailure(toUpload)
    /\ UNCHANGED << service, folder_id, driveFiles >>
    /\ UNCHANGED << pc, runNo, writerHasAenter, dataset, reached >>
    /\ UNCHANGED << loginVars, taskVars, fetchVars, outVars >>

\* The loop is over: "Pipeline completed successfully!"
Finish ==
    /\ pc = "upload"
    /\ toUpload = << >>
    /\ pc' = "done"
    /\ UNCHANGED << runNo, clock, writerHasAenter, dataset, reached >>
    /\ UNCHANGED << loginVars, taskVars, fetchVars, outVars, driveVars >>

\* ------------------------------------------------------------ the next run
RunOver == pc \in { "done", "failed" }

\* A new process: DataPipeline() is constructed again; the disk and the
\* drive are as the previous run left them.
NewRun ==
    /\ RunOver
    /\ runNo < MaxRuns
    /\ runNo' = runNo + 1
    /\ pc' = "start"
    /\ reached' = { }
    /\ login_i' = 0 /\ loginCalls' = 0 /\ loginFails' = 0 /\ sf' = FALSE
    /\ tpc' = NoTasks /\ current' = 0 /\ started' = Zeros /\ start_time' = Zeros
    /\ field_metadata' = Empties /\ labelCalls' = Zeros /\ labelFails' = Zeros
    /\ field_label_map' = Empties /\ fetch_i' = Zeros
    /\ all_records' = Empties /\ next_records_url' = Zeros
    /\ issued' = NoFrames /\ failedAt' = NoFrames
    /\ statistics' = << >>
    /\ workbook' = << >>
    /\ csvWritten' = { }
    /\ service' = FALSE /\ folder_id' = 0 /\ toUpload' = << >> /\ logs' = << >>
    /\ UNCHANGED << clock, writerHasAenter, dataset >>
    /\ UNCHANGED << localFolder, statsFile, driveFiles >>

Next ==
    \/ EnsureFolders
    \/ LoginOk
    \/ LoginFail
    \/ LoginSleep
    \/ EnterWriter
    \/ EnterWriterRaises
    \/ \E o \in Objects : Start(o)
    \/ \E o \in Objects : FieldLabelsOk(o, FieldMetadata)
    \/ \E o \in Objects : FieldLabelsFail(o)
    \/ \E o \in Objects : QueryOk(o)
    \/ \E o \in Objects : QueryFail(o)
    \/ \E o \in Objects : QueryMoreOk(o)
    \/ \E o \in Objects : QueryMoreFail(o)
    \/ \E o \in Objects : FetchSleep(o)
    \/ \E o \in Objects : SaveNothing(o)
    \/ \E o \in Objects : BeginWrite(o)
    \/ \E o \in Objects : ToExcelOk(o)
    \/ \E o \in Objects : ToCsvOk(o)
    \/ \E o \in Objects : WriteFail(o)
    \/ ExitWriter
    \/ ExitWriterRaises
    \/ SaveStatistics
    \/ AuthenticateOk
    \/ AuthenticateFail
    \/ FolderOk
    \/ FolderFail
    \/ UploadOk
    \/ UploadFail
    \/ Finish

\* One run of the pipeline on a fresh disk (where no statistics file exists
\* yet, so that pd.read_csv is not reached).
Spec == Init /\ [][Next]_vars

\* Up to MaxRuns runs, one after the other, on the same disk and drive
NextRuns == Next \/ SaveStatisticsRaises \/ NewRun

SpecRuns == Init /\ [][NextRuns]_vars

\* get_field_labels applied to every metadata answer of MetadataOptions, and
\* the first query of the fetch_data that follows it: a run up to there, for
\* a writer that can be entered and objects of one page of records.
InitFields ==
    /\ Init
    /\ writerHasAenter
    /\ dataset = [o \in Objects |-> SmallData(1)]

NextFields ==
    \/ EnsureFolders
    \/ LoginOk
    \/ EnterWriter
    \/ \E o \in Objects : Start(o)
    \/ \E o \in Objects : \E md \in MetadataOptions : FieldLabelsOk(o, md)
    \/ \E o \in Objects : QueryOk(o)

SpecFields == InitFields /\ [][NextFields]_vars

\* Up to MaxRuns runs on the same disk and drive folder, for a writer that can
\* be entered and a provider that answers every call: each run reaches the
\* upload loop unless closing an empty workbook ends it, and every upload_file
\* call may return or raise.
InitDrive == Init /\ writerHasAenter

NextDrive ==
    \/ EnsureFolders
    \/ LoginOk
    \/ EnterWriter
    \/ \E o \in Objects : Start(o)
    \/ \E o \in Objects : FieldLabelsOk(o, FieldMetadata)
    \/ \E o \in Objects : QueryOk(o)
    \/ \E o \in Objects : QueryMoreOk(o)
    \/ \E o \in Objects : SaveNothing(o)
    \/ \E o \in Objects : BeginWrite(o)
    \/ \E o \in Objects : ToExcelOk(o)
    \/ \E o \in Objects : ToCsvOk(o)
    \/ ExitWriter
    \/ ExitWriterRaises
    \/ SaveStatistics
    \/ AuthenticateOk
    \/ FolderOk
    \/ UploadOk
    \/ UploadFail
    \/ Finish
    \/ NewRun

SpecDrive == InitDrive /\ [][NextDrive]_vars

\* =================================================================== claims
RECURSIVE SumCalls(_, _)
SumCalls(f, k) == IF k = 0 THEN 0 ELSE f[k] + SumCalls(f, k - 1)

\* Attempts of the fetch_data in progress for o that ended in an exception
FailedAttempts(o) == SumCalls(failedAt[o], MaxPages)

\* fetch_data has returned its records to the coroutine of o
FetchReturned(o) == tpc[o] \in { "save", "to_excel", "to_csv" }

\* fetch_data has raised "Max retries reached" in the coroutine of o
FetchExhausted(o) == tpc[o] = "caught" /\ fetch_i[o] = FetchRetries

\* login has raised "Max retries reached"
LoginExhausted == pc = "failed" /\ ~sf

\* The number of records the provider holds for o
Served(o) == Flatten(dataset[o])
ServedCount(o) == RecordCount(Served(o))

SheetsOf(o) ==
    { i \in 1..Len(workbook) : workbook[i].sheet_name = SheetName(OBJECT_NAMES[o]) }

HasSheet(o) == Cardinality(SheetsOf(o)) = 1
HasCsv(o) == CsvFileName(OBJECT_NAMES[o]) \in csvWritten

RecordsOf(o) ==
    { j \in 1..Len(statistics) : statistics[j].object_name = OBJECT_NAMES[o] }

\* login has succeeded and the run is past its export phase
PastExport ==
    sf /\ pc \notin { "start", "login", "login_sleep", "open_writer", "gather" }

\* C1: object-level failure isolation. Once login has succeeded and the run
\* is past its export phase, every configured object whose export did not
\* fail has exactly one statistics record, and no failed object has one.
C1_FailureIsolation ==
    PastExport =>
        \A o \in Objects :
            /\ tpc[o] # "caught" => Cardinality(RecordsOf(o)) = 1
            /\ tpc[o] = "caught" => RecordsOf(o) = { }

\* C2: retry call count. When login or fetch_data returns after k failed
\* attempts, k < 5 and k + 1 underlying calls were made; when it raises
\* "Max retries reached", exactly 5 underlying calls were made, all failed.
C2_RetryCallCount ==
    /\ pc = "open_writer" => loginFails < LoginRetries /\ loginCalls = loginFails + 1
    /\ LoginExhausted => loginCalls = LoginRetries /\ loginFails = LoginRetries
    /\ \A o \in Objects :
        /\ FetchReturned(o) =>
              FailedAttempts(o) < FetchRetries /\ issued[o][1] = FailedAttempts(o) + 1
        /\ FetchExhausted(o) =>
              issued[o][1] = FetchRetries /\ FailedAttempts(o) = FetchRetries

\* A fetch_data that returned after a failed sf.query and a failed
\* sf.query_more, having called sf.query three times.
C2_Witness ==
    \E o \in Objects :
        /\ FetchReturned(o)
        /\ failedAt[o][1] = 1
        /\ failedAt[o][2] = 1
        /\ issued[o][1] = 3

\* Row j of an export comes from served record j: as many records, and every
\* cell holds a value of that record.
RowFrom(r, b) ==
    /\ r.count = b.count
    /\ DOMAIN r.row # { }
    /\ \A label \in DOMAIN r.row : r.row[label] \div 10 = b.first

RowsMatch(rows, served) ==
    /\ Len(rows) = Len(served)
    /\ \A j \in 1..Len(rows) : RowFrom(rows[j], served[j])

\* C3: no dropped, duplicated or reordered rows. The rows of every sheet and
\* of every standalone file a successful export wrote are, one to one and in
\* order, the records the provider holds for the object, page after page.
C3_RowsAsServed ==
    \A o \in Objects :
        tpc[o] = "returned" =>
            /\ \A i \in SheetsOf(o) : RowsMatch(workbook[i].rows, Served(o))
            /\ HasCsv(o) => RowsMatch(localFolder[CsvFileName(OBJECT_NAMES[o])], Served(o))

\* A two-page object exported to a sheet after a failed next-page call.
C3_Witness ==
    \E o \in Objects :
        /\ tpc[o] = "returned"
        /\ Len(dataset[o]) = 2
        /\ failedAt[o][2] >= 1
        /\ HasSheet(o)
        /\ RecordCount(workbook[CHOOSE i \in SheetsOf(o) : TRUE].rows) = 4

\* C4 as claimed: every successful export yields exactly one artifact, a
\* sheet for every row count below 1,000,000, zero included, and a standalone
\* file from 1,000,000 on.
C4_OneArtifactAsClaimed ==
    \A o \in Objects :
        tpc[o] = "returned" =>
            /\ ServedCount(o) < LargeThreshold => HasSheet(o) /\ ~HasCsv(o)
            /\ ServedCount(o) >= LargeThreshold => HasCsv(o) /\ SheetsOf(o) = { }

\* C4, amended: a successful export of no rows yields no artifact; one of 1
\* to 999,999 rows yields exactly one sheet and no standalone file; one of
\* 1,000,000 rows or more yields the standalone file and no sheet.
C4_OneArtifact ==
    \A o \in Objects :
        tpc[o] = "returned" =>
            /\ ServedCount(o) = 0 => SheetsOf(o) = { } /\ ~HasCsv(o)
            /\ (ServedCount(o) > 0 /\ ServedCount(o) < LargeThreshold) =>
                  HasSheet(o) /\ ~HasCsv(o)
            /\ ServedCount(o) >= LargeThreshold => HasCsv(o) /\ SheetsOf(o) = { }

\* One object of 999,999 rows went to a sheet and one of 1,000,000 to a file.
C4_Witness ==
    \E o, p \in Objects :
        /\ tpc[o] = "returned" /\ ServedCount(o) = LargeThreshold - 1 /\ HasSheet(o)
        /\ tpc[p] = "returned" /\ ServedCount(p) = LargeThreshold /\ HasCsv(p)

\* C5: single writer. At most one export coroutine is inside df.to_excel on
\* the shared writer at any time.
C5_SingleWriter == Cardinality({ o \in Objects : tpc[o] = "to_excel" }) <= 1

\* A coroutine is inside df.to_excel while another one has not run yet.
C5_Witness ==
    \E o, p \in Objects : tpc[o] = "to_excel" /\ tpc[p] = "created"

\* C6: phase ordering without short-circuit. Statistics are persisted only
\* when every export coroutine has returned, the upload phase starts only
\* after they are persisted, and a run whose login succeeded reaches both.
C6_PhaseOrdering ==
    /\ "saved" \in reached => \A o \in Objects : Dead(o)
    /\ "upload" \in reached => "saved" \in reached
    /\ (RunOver /\ sf) => "saved" \in reached /\ "upload" \in reached

\* C7: one task per object. No coroutine body is entered twice, and a run
\* whose login succeeded has entered and left the body of every object's.
C7_OneTaskPerObject ==
    /\ \A o \in Objects : started[o] <= 1
    /\ (RunOver /\ sf) => \A o \in Objects : started[o] = 1 /\ Dead(o)

\* C8: append-only statistics. Once a run has called save_statistics, the
\* file exists and its last rows are that run's statistics records, in
\* their accumulation order.
C8_AppendOnly ==
    "save_statistics" \in reached =>
        LET n == Len(statsFile.rows)
            m == Len(statistics)
        IN  /\ statsFile.exists
            /\ n >= m
            /\ SubSeq(statsFile.rows, n - m + 1, n) = NewStatRows

\* C9: login failure is fatal. When all 5 login attempts have failed, the
\* run does nothing but end: no export coroutine exists or has started, no
\* statistics file is written, and the drive is neither authenticated to
\* nor uploaded to.
C9_LoginFailureFatal ==
    loginFails = LoginRetries =>
        /\ pc \in { "login_sleep", "failed" }
        /\ ~sf
        /\ tpc = NoTasks /\ started = Zeros
        /\ statistics = << >>
        /\ ~statsFile.exists /\ "save_statistics" \notin reached
        /\ ~service /\ "upload" \notin reached
        /\ logs = << >> /\ driveFiles = << >>

\* The run has ended at login's "Max retries reached".
C9_Witness == LoginExhausted /\ loginCalls = LoginRetries

\* C10: per-page retry. A call for a page is issued again only when that
\* very call failed: no page is requested more often than once plus the
\* number of failed calls for it.
C10_PerPageRetry ==
    \A o \in Objects : \A k \in Pages : issued[o][k] <= failedAt[o][k] + 1

\* get_field_labels has raised in the coroutine of o, which gave the export up
AbandonedAtMetadata(o) == tpc[o] = "caught" /\ labelFails[o] > 0

\* C11: the field-metadata query is retried. An export is never given up at
\* the first failure of its metadata query: when get_field_labels has ended
\* an export, the query had been issued more than once.
C11_MetadataRetried ==
    \A o \in Objects : AbandonedAtMetadata(o) => labelCalls[o] > 1

\* The identifier holds "__c" at some place.
HasMarker(id) ==
    \E i \in 1..Len(id) :
        i + 2 <= Len(id) /\ id[i] = "_" /\ id[i + 1] = "_" /\ id[i + 2] = "c"

\* The identifiers the metadata query returned for o
Returned(o) ==
    { field_metadata[o][i].QualifiedApiName : i \in 1..Len(field_metadata[o]) }

\* Those of them that are allowlisted or hold the marker
Expected(o) == { id \in Returned(o) : id \in STANDARD_FIELDS \/ HasMarker(id) }

\* get_field_labels has returned its map to the coroutine of o
LabelsReturned(o) == labelCalls[o] > labelFails[o]

\* C12: field filtering. The keys of the map get_field_labels returns are,
\* each once, exactly the returned identifiers that are in the standard-field
\* allowlist or contain "__c", and every record fetch_data got was queried
\* for exactly these fields.
C12_FieldFiltering ==
    \A o \in Objects :
        LabelsReturned(o) =>
            /\ { Fields(o)[i] : i \in 1..Len(Fields(o)) } = Expected(o)
            /\ Len(Fields(o)) = Cardinality(Expected(o))
            /\ \A j \in 1..Len(all_records[o]) :
                  DOMAIN all_records[o][j].rec = Expected(o)

\* Records were fetched after a metadata answer of four identifiers, of which
\* Id and the one with the marker in its middle were kept and two dropped.
C12_Witness ==
    \E o \in Objects :
        /\ tpc[o] = "save"
        /\ all_records[o] # << >>
        /\ Cardinality(Returned(o)) = 4
        /\ Expected(o) = { << "I", "d" >>, << "A", "_", "_", "c", "B" >> }

\* The task gather() made for p is the next one the event loop would start.
NextToStart(p) ==
    tpc[p] = "created" /\ \A q \in Objects : q < p => tpc[q] # "created"

\* C13: backoff suspends only the waiting task. While the coroutine of one
\* object is in the sleep of fetch_data's retry handler, the task that is
\* next to start is able to take its step.
C13_BackoffYields ==
    \A o \in Objects :
        tpc[o] = "sleep" =>
            \A p \in Objects \ { o } : NextToStart(p) => ENABLED Start(p)

\* C14: every backoff wait is followed by another attempt. login and
\* fetch_data are in the sleep of their handler only when the loop has an
\* attempt left after it.
C14_WaitThenAttempt ==
    /\ pc = "login_sleep" => LoginMayTry(login_i + 1)
    /\ \A o \in Objects : tpc[o] = "sleep" => FetchMayTry(fetch_i[o] + 1)

\* The files the upload loop has visited, in the order of their log entries
LogNames == [i \in 1..Len(logs) |-> logs[i].file_name]

\* C15: upload failures are isolated per file. In and after the upload loop
\* of a run on an empty drive folder, the log entries and the files still to
\* visit are together the .xlsx and .csv files of the local folder, each
\* once; an entry says success exactly when its file got into the folder;
\* and the loop ends only when every file has its entry.
C15_UploadIsolation ==
    pc \in { "upload", "done" } =>
        /\ LogNames \o toUpload = ListedFiles
        /\ \A i \in 1..Len(logs) : logs[i].is_success <=> InDrive(logs[i].file_name)
        /\ pc = "done" => LogNames = ListedFiles

\* The loop is over: the first file's upload failed, the second one's went
\* through.
C15_Witness ==
    /\ pc = "done"
    /\ Len(logs) >= 2
    /\ ~logs[1].is_success
    /\ logs[2].is_success

\* C16: upload is an upsert. The drive folder never holds two files of one
\* name, and a file of the folder has had one media upload at its creation
\* and one more for each later successful upload of its name.
C16_Upsert ==
    /\ \A i, j \in 1..Len(driveFiles) :
          driveFiles[i].name = driveFiles[j].name => i = j
    /\ \A i \in 1..Len(driveFiles) :
          driveFiles[i].uploads >= 1 /\ driveFiles[i].uploads <= runNo

\* In a second run one file of the folder was updated and another created.
C16_Witness ==
    /\ runNo = 2
    /\ \E i, j \in 1..Len(driveFiles) :
          driveFiles[i].uploads = 2 /\ driveFiles[j].uploads = 1

\* ------------------------------------------------------ supporting facts
\* Where the writer can be entered, a failed export stays with its object.
IsolationWhereEntered == writerHasAenter => C1_FailureIsolation

\* Where the writer can be entered, every object's coroutine runs once.
OneTaskWhereEntered == writerHasAenter => C7_OneTaskPerObject

\* The order of the phases, without the requirement that they are reached.
PhaseOrderOnly ==
    /\ "saved" \in reached => \A o \in Objects : Dead(o)
    /\ "upload" \in reached => "saved" \in reached

\* A save_statistics that returned has appended the run's records, and no
\* write of the file changes or drops a row it held.
AppendWhereSaved == "saved" \in reached => C8_AppendOnly

\* No step starts or advances a coroutine while another one is in the sleep
\* of its retry handler: time.sleep holds the thread of the event loop.
SleepHoldsLoop ==
    [][\A o \in Objects :
          tpc[o] = "sleep" =>
              \A p \in Objects \ { o } : tpc'[p] = tpc[p]]_vars

\* Every exhausted login or fetch_data has slept after each failed attempt,
\* the last one included.
WaitsWhenExhausted ==
    [][/\ (pc # "failed" /\ pc' = "failed" /\ loginFails = LoginRetries) =>
             pc = "login_sleep"
       /\ \A o \in Objects :
             (tpc[o] # "caught" /\ tpc'[o] = "caught" /\ fetch_i'[o] = FetchRetries) =>
                 tpc[o] = "sleep"]_vars

PrefixKept ==
    [][statsFile' # statsFile =>
          /\ Len(statsFile.rows) <= Len(statsFile'.rows)
          /\ SubSeq(statsFile'.rows, 1, Len(statsFile.rows)) = statsFile.rows]_vars

====
